---- MODULE Spec2Model ----
(***************************************************************************)
(* Model of helper_functions.py: the batch pass that extracts the          *)
(* dependency references of every key record, resolves the proper          *)
(* calculation level of every key (calculate_proper_level with the shared  *)
(* memo and the visited set) and then validates every dependency edge.     *)
(***************************************************************************)
EXTENDS Integers, Sequences, FiniteSets, TLC

(* ---------------------------- bounds ----------------------------------- *)
\* number of key records (rows of df)
NumKeys == 2
\* total number of reference tokens over all formulas of the registry
MaxEdges == 2
\* largest declared calculation_level
MaxLevel == 1

(* ---------------------------- data model ------------------------------- *)
Fund == "F1"
Datagroup == "DG1"
Tags == {"current", "pf"}
\* a context tag the pattern does not accept
BadTag == "prev"
KeyNames == 1..NumKeys

\* the value calculate_proper_level returns on re-entry: -1
Cycle == 0 - 1

\* full_key of the record named n: names alternate between the two contexts
TagOf(n) == IF n % 2 = 1 THEN "current" ELSE "pf"
FullKey(fund, g, k, ctx) == <<fund, g, k, ctx>>
KeyOf(n) == FullKey(Fund, Datagroup, n, TagOf(n))

\* one quoted triple "<g>"!"<k>"!"<tag>" in a formula text
Tokens == [g : {Datagroup}, k : KeyNames, tag : Tags]
              \cup { [g |-> Datagroup, k |-> 1, tag |-> BadTag] }
NoneFormula == [kind |-> "None", text |-> << >>]
StrFormula(s) == [kind |-> "str", text |-> s]

RECURSIVE TextsOfLen(_)
TextsOfLen(n) ==
    IF n = 0 THEN { << >> }
    ELSE { Append(s, t) : s \in TextsOfLen(n - 1), t \in Tokens }

FormulasOfLen(n) ==
    { StrFormula(s) : s \in TextsOfLen(n) } \cup (IF n = 0 THEN {NoneFormula} ELSE {})

\* all ways to give n records a formula with at most budget tokens in total
RECURSIVE FormulaColumns(_, _)
FormulaColumns(n, budget) ==
    IF n = 0 THEN { << >> }
    ELSE UNION { { Append(rest, f) : rest \in FormulaColumns(n - 1, budget - l),
                                      f \in FormulasOfLen(l) } : l \in 0..budget }

\* the pattern with any quoted text accepted as the third group
Matches_AnyTag(t) == TRUE

\* pattern.findall: a token matches iff its tag is current or pf
Matches(t) == t.tag \in Tags

extract_dependencies(formula, fund_id) ==
    IF formula.kind # "str" THEN << >>
    ELSE LET hits == SelectSeq(formula.text, Matches)
         IN  [j \in 1..Len(hits) |->
                 <<FullKey(fund_id, hits[j].g, hits[j].k, hits[j].tag), hits[j].tag>>]

VARIABLES df, level_map, current_map, dependency_map,
          memo, visited, stack, applied, violations, row, depi, pc,
          review_file, calls, connection_pool, last_call

\* the record set and the lookup maps built from it: never written after load
data == <<df, level_map, current_map, dependency_map>>
\* the review file and the calls made on it so far
review == <<review_file, calls>>
\* the connection pool and the outcome of the latest call that used it
db == <<connection_pool, last_call>>
vars == <<data, review, db, memo, visited, stack, applied, violations, row, depi, pc>>

(* ---------------------------- lookup maps ------------------------------ *)
\* dict(zip(df["full_key"], df[column])): full_key is unique over the rows
ZipMap(frame, column) ==
    [key \in { frame[i].full_key : i \in 1..Len(frame) } |->
        (frame[CHOOSE i \in 1..Len(frame) : frame[i].full_key = key])[column]]

RegistryKeys == DOMAIN dependency_map
dependencies(i) == df[i].dependencies

\* dep_map.get(key, [])
DepsGet(dep_map, key) == IF key \in DOMAIN dep_map THEN dep_map[key] ELSE << >>

(* ---------------------------- initial states --------------------------- *)
RowOrders == { p \in [KeyNames -> KeyNames] : \A a, b \in KeyNames : p[a] = p[b] => a = b }

\* one record, with the dependencies column of line 20
MkRow(n, f, lvl, cur) ==
    [fund_id |-> Fund, full_key |-> KeyOf(n), calculation_level |-> lvl,
     is_current |-> cur, formula |-> f,
     dependencies |-> extract_dependencies(f, Fund)]

\* lines 7-25: the records are loaded and the lookup maps built
Load(frame) ==
    /\ df = frame
    /\ level_map = ZipMap(frame, "calculation_level")
    /\ current_map = ZipMap(frame, "is_current")
    /\ dependency_map = ZipMap(frame, "dependencies")

StartOfPass ==
    /\ memo = << >>
    /\ visited = {}
    /\ stack = << >>
    /\ applied = << >>
    /\ violations = << >>
    /\ row = 1
    /\ depi = 1
    /\ pc = "resolve"

\* connection_pool = None before the first get_connection; no call made yet
NoPool == [created |-> FALSE, idle |-> 0, used |-> 0]
NoCall == [op |-> "none", got |-> FALSE, released |-> 0, raised |-> FALSE, ok |-> FALSE,
           error |-> "none"]
NoDb == connection_pool = NoPool /\ last_call = NoCall

\* the batch pass never opens the review file
AbsentFile == [exists |-> FALSE, lines |-> << >>]
NoReview == review_file = AbsentFile /\ calls = << >>

\* any dependency graph, rows in any order, consistent declared metadata
Init ==
    /\ \E p \in RowOrders, fs \in FormulaColumns(NumKeys, MaxEdges) :
          Load([i \in 1..NumKeys |->
                   MkRow(p[i], fs[p[i]],
                         IF Len(extract_dependencies(fs[p[i]], Fund)) = 0 THEN 0 ELSE 1,
                         TagOf(p[i]) = "current")])
    /\ StartOfPass
    /\ NoReview
    /\ NoDb

\* The validation loop reads two records per edge, the subject's and the
\* referenced one: a pair of records with any declared level, any context
\* flag and any formulas (a reference to another name is an absent key).
PairRows == <<1, 2>>

InitV ==
    /\ \E fs \in FormulaColumns(Len(PairRows), MaxEdges),
          lv \in [DOMAIN PairRows -> 0..MaxLevel], cu \in [DOMAIN PairRows -> BOOLEAN] :
          Load([i \in DOMAIN PairRows |-> MkRow(PairRows[i], fs[i], lv[i], cu[i])])
    /\ StartOfPass
    /\ NoReview
    /\ NoDb

(* ---------------------------- level resolver --------------------------- *)
Frame(key) == [key |-> key, i |-> 1, levels |-> << >>]

Top == stack[Len(stack)]
Pop(s) == SubSeq(s, 1, Len(s) - 1)

RECURSIVE SeqMax(_)
SeqMax(s) == IF Len(s) = 1 THEN s[1]
             ELSE LET m == SeqMax(Tail(s)) IN IF s[1] >= m THEN s[1] ELSE m

\* LevelOf without the any(l == -1) test: a Cycle is fed to 1 + max
LevelOf_NoPropagation(deps, levels) ==
    IF Len(deps) = 0 THEN 0
    ELSE IF Len(levels) > 0 THEN 1 + SeqMax(levels) ELSE 0

\* LevelOf that forgets the 1 + in front of max
LevelOf_MaxOnly(deps, levels) ==
    IF Len(deps) = 0 THEN 0
    ELSE IF \E j \in 1..Len(levels) : levels[j] = Cycle THEN Cycle
    ELSE IF Len(levels) > 0 THEN SeqMax(levels) ELSE 0

\* LevelOf with level = 1 for a key without references
LevelOf_LeafIsOne(deps, levels) ==
    IF Len(deps) = 0 THEN 1
    ELSE IF \E j \in 1..Len(levels) : levels[j] = Cycle THEN Cycle
    ELSE IF Len(levels) > 0 THEN 1 + SeqMax(levels) ELSE 0

\* LevelOf with the number of references in place of 1 + max
LevelOf_CountRefs(deps, levels) ==
    IF Len(deps) = 0 THEN 0
    ELSE IF \E j \in 1..Len(levels) : levels[j] = Cycle THEN Cycle
    ELSE Len(levels)

\* lines 43-60: the level of a key from the levels of its references
LevelOf(deps, levels) ==
    IF Len(deps) = 0 THEN 0
    ELSE IF \E j \in 1..Len(levels) : levels[j] = Cycle THEN Cycle
    ELSE IF Len(levels) > 0 THEN 1 + SeqMax(levels) ELSE 0

\* memo[key] = level
MemoPut(m, key, level) == [k \in DOMAIN m \cup {key} |-> IF k = key THEN level ELSE m[k]]

\* calculate_proper_level as a function of (key, memo, visited): the level
\* returned and the memo left behind
RECURSIVE calculate_proper_level(_, _, _, _), CalcDeps(_, _, _, _, _, _)
calculate_proper_level(key, dep_map, m, vis) ==
    IF key \in DOMAIN m THEN [level |-> m[key], memo |-> m]
    ELSE IF key \in vis THEN [level |-> Cycle, memo |-> m]
    ELSE LET deps == DepsGet(dep_map, key)
             r == CalcDeps(deps, 1, dep_map, m, vis \cup {key}, << >>)
             level == LevelOf(deps, r.levels)
         IN  [level |-> level, memo |-> MemoPut(r.memo, key, level)]
CalcDeps(deps, j, dep_map, m, vis, levels) ==
    IF j > Len(deps) THEN [levels |-> levels, memo |-> m]
    ELSE LET d_key == deps[j][1] IN
         IF d_key \notin DOMAIN dep_map
         THEN CalcDeps(deps, j + 1, dep_map, m, vis, Append(levels, 0))
         ELSE LET c == calculate_proper_level(d_key, dep_map, m, vis)
              IN  CalcDeps(deps, j + 1, dep_map, c.memo, vis, Append(levels, c.level))

\* df["full_key"].apply(...): the top-level call for the next row
Apply ==
    /\ pc = "resolve"
    /\ stack = << >>
    /\ Len(applied) < Len(df)
    /\ LET key == df[Len(applied) + 1].full_key
           \* visited=None: the call starts with a new empty set
           fresh == {}
       IN
         IF key \in DOMAIN memo
         THEN /\ applied' = Append(applied, memo[key])
              /\ UNCHANGED <<visited, stack>>
         ELSE IF key \in fresh
         THEN /\ applied' = Append(applied, Cycle)
              /\ UNCHANGED <<visited, stack>>
         ELSE /\ visited' = fresh \cup {key}
              /\ stack' = <<Frame(key)>>
              /\ UNCHANGED applied
    /\ UNCHANGED <<data, review, db, memo, violations, row, depi, pc>>

\* Descend with a re-entered key counted as a leaf instead of a Cycle
Descend_CycleAsLeaf ==
    /\ pc = "resolve"
    /\ stack # << >>
    /\ LET f == Top
           deps == DepsGet(dependency_map, f.key)
       IN /\ f.i <= Len(deps)
          /\ LET d_key == deps[f.i][1]
                 push(l) == stack' = [stack EXCEPT ![Len(stack)] =
                                [@ EXCEPT !.i = @ + 1, !.levels = Append(@, l)]]
             IN IF d_key \notin DOMAIN dependency_map
                THEN push(0) /\ UNCHANGED visited
                ELSE IF d_key \in DOMAIN memo
                THEN push(memo[d_key]) /\ UNCHANGED visited
                ELSE IF d_key \in visited
                THEN push(0) /\ UNCHANGED visited
                ELSE /\ visited' = visited \cup {d_key}
                     /\ stack' = Append(stack, Frame(d_key))
    /\ UNCHANGED <<data, review, db, memo, applied, violations, row, depi, pc>>

\* Descend without the "d_key not in dep_map" test: an absent key is called
Descend_RecurseMissing ==
    /\ pc = "resolve"
    /\ stack # << >>
    /\ LET f == Top
           deps == DepsGet(dependency_map, f.key)
       IN /\ f.i <= Len(deps)
          /\ LET d_key == deps[f.i][1]
                 push(l) == stack' = [stack EXCEPT ![Len(stack)] =
                                [@ EXCEPT !.i = @ + 1, !.levels = Append(@, l)]]
             IN IF d_key \in DOMAIN memo
                THEN push(memo[d_key]) /\ UNCHANGED visited
                ELSE IF d_key \in visited
                THEN push(Cycle) /\ UNCHANGED visited
                ELSE /\ visited' = visited \cup {d_key}
                     /\ stack' = Append(stack, Frame(d_key))
    /\ UNCHANGED <<data, review, db, memo, applied, violations, row, depi, pc>>

\* Descend with levels.append(1) for an absent key
Descend_MissingAsOne ==
    /\ pc = "resolve"
    /\ stack # << >>
    /\ LET f == Top
           deps == DepsGet(dependency_map, f.key)
       IN /\ f.i <= Len(deps)
          /\ LET d_key == deps[f.i][1]
                 push(l) == stack' = [stack EXCEPT ![Len(stack)] =
                                [@ EXCEPT !.i = @ + 1, !.levels = Append(@, l)]]
             IN IF d_key \notin DOMAIN dependency_map
                THEN push(1) /\ UNCHANGED visited
                ELSE IF d_key \in DOMAIN memo
                THEN push(memo[d_key]) /\ UNCHANGED visited
                ELSE IF d_key \in visited
                THEN push(Cycle) /\ UNCHANGED visited
                ELSE /\ visited' = visited \cup {d_key}
                     /\ stack' = Append(stack, Frame(d_key))
    /\ UNCHANGED <<data, review, db, memo, applied, violations, row, depi, pc>>

\* Descend without the memo test of line 34: a finalized key is expanded again
Descend_NoMemo ==
    /\ pc = "resolve"
    /\ stack # << >>
    /\ LET f == Top
           deps == DepsGet(dependency_map, f.key)
       IN /\ f.i <= Len(deps)
          /\ LET d_key == deps[f.i][1]
                 push(l) == stack' = [stack EXCEPT ![Len(stack)] =
                                [@ EXCEPT !.i = @ + 1, !.levels = Append(@, l)]]
             IN IF d_key \notin DOMAIN dependency_map
                THEN push(0) /\ UNCHANGED visited
                ELSE IF d_key \in visited
                THEN push(Cycle) /\ UNCHANGED visited
                ELSE /\ visited' = visited \cup {d_key}
                     /\ stack' = Append(stack, Frame(d_key))
    /\ UNCHANGED <<data, review, db, memo, applied, violations, row, depi, pc>>

\* one turn of the loop over dep_keys in the active call (lines 49-55)
Descend ==
    /\ pc = "resolve"
    /\ stack # << >>
    /\ LET f == Top
           deps == DepsGet(dependency_map, f.key)
       IN /\ f.i <= Len(deps)
          /\ LET d_key == deps[f.i][1]
                 push(l) == stack' = [stack EXCEPT ![Len(stack)] =
                                [@ EXCEPT !.i = @ + 1, !.levels = Append(@, l)]]
             IN IF d_key \notin DOMAIN dependency_map
                THEN push(0) /\ UNCHANGED visited
                ELSE IF d_key \in DOMAIN memo
                THEN push(memo[d_key]) /\ UNCHANGED visited
                ELSE IF d_key \in visited
                THEN push(Cycle) /\ UNCHANGED visited
                ELSE /\ visited' = visited \cup {d_key}
                     /\ stack' = Append(stack, Frame(d_key))
    /\ UNCHANGED <<data, review, db, memo, applied, violations, row, depi, pc>>

\* Return without line 62: the key stays in visited after it is memoized
Return_KeepVisited ==
    /\ pc = "resolve"
    /\ stack # << >>
    /\ LET f == Top
           deps == DepsGet(dependency_map, f.key)
           level == LevelOf(deps, f.levels)
       IN /\ f.i > Len(deps)
          /\ visited' = visited
          /\ memo' = MemoPut(memo, f.key, level)
          /\ IF Len(stack) = 1
             THEN /\ stack' = << >>
                  /\ applied' = Append(applied, level)
             ELSE /\ stack' = [Pop(stack) EXCEPT ![Len(stack) - 1] =
                                [@ EXCEPT !.i = @ + 1, !.levels = Append(@, level)]]
                  /\ UNCHANGED applied
    /\ UNCHANGED <<data, review, db, violations, row, depi, pc>>

\* Return without line 63: the level is returned but not memoized
Return_NoMemo ==
    /\ pc = "resolve"
    /\ stack # << >>
    /\ LET f == Top
           deps == DepsGet(dependency_map, f.key)
           level == LevelOf(deps, f.levels)
       IN /\ f.i > Len(deps)
          /\ visited' = visited \ {f.key}
          /\ memo' = memo
          /\ IF Len(stack) = 1
             THEN /\ stack' = << >>
                  /\ applied' = Append(applied, level)
             ELSE /\ stack' = [Pop(stack) EXCEPT ![Len(stack) - 1] =
                                [@ EXCEPT !.i = @ + 1, !.levels = Append(@, level)]]
                  /\ UNCHANGED applied
    /\ UNCHANGED <<data, review, db, violations, row, depi, pc>>

\* lines 57-64: the active call finishes, memoizes and returns to its caller
Return ==
    /\ pc = "resolve"
    /\ stack # << >>
    /\ LET f == Top
           deps == DepsGet(dependency_map, f.key)
           level == LevelOf(deps, f.levels)
       IN /\ f.i > Len(deps)
          /\ visited' = visited \ {f.key}
          /\ memo' = MemoPut(memo, f.key, level)
          /\ IF Len(stack) = 1
             THEN /\ stack' = << >>
                  /\ applied' = Append(applied, level)
             ELSE /\ stack' = [Pop(stack) EXCEPT ![Len(stack) - 1] =
                                [@ EXCEPT !.i = @ + 1, !.levels = Append(@, level)]]
                  /\ UNCHANGED applied
    /\ UNCHANGED <<data, review, db, violations, row, depi, pc>>

\* line 66: the column of proper levels is complete
AssignColumn ==
    /\ pc = "resolve"
    /\ stack = << >>
    /\ Len(applied) = Len(df)
    /\ pc' = "validate"
    /\ UNCHANGED <<data, review, db, memo, visited, stack, applied, violations, row, depi>>

(* ---------------------------- validator -------------------------------- *)
\* lines 68-73: the rows printed because their declared level differs from
\* their proper level (read once the column is assigned)
level_mismatches ==
    { i \in DOMAIN df : df[i].calculation_level # applied[i] }

\* EdgeViolations that reports a subject whose declared level differs from
\* its proper level
EdgeViolations_DeltaBlocks(r, j) ==
    LET this_key == df[r].full_key
        this_level == df[r].calculation_level
        dep_key == dependencies(r)[j][1]
        found == dep_key \in DOMAIN level_map
    IN  IF ~found
        THEN << [key |-> this_key, problem |-> "Missing dependency",
                 dependency |-> dep_key, context |-> "pf"] >>
        ELSE IF (level_map[dep_key] >= this_level /\ this_level # 0)
                  \/ this_level # applied[r]
        THEN << [key |-> this_key, problem |-> "Invalid calculation order",
                 dependency |-> dep_key, dependency_level |-> level_map[dep_key],
                 key_level |-> this_level] >>
        ELSE << >>

\* EdgeViolations with the missing-key test skipped for a subject of level 0
EdgeViolations_MissingOnlyComputed(r, j) ==
    LET this_key == df[r].full_key
        this_level == df[r].calculation_level
        dep_key == dependencies(r)[j][1]
        found == dep_key \in DOMAIN level_map
    IN  IF ~found
        THEN IF this_level = 0 THEN << >>
             ELSE << [key |-> this_key, problem |-> "Missing dependency",
                      dependency |-> dep_key, context |-> "pf"] >>
        ELSE IF level_map[dep_key] >= this_level /\ this_level # 0
        THEN << [key |-> this_key, problem |-> "Invalid calculation order",
                 dependency |-> dep_key, dependency_level |-> level_map[dep_key],
                 key_level |-> this_level] >>
        ELSE << >>

\* EdgeViolations with dep_level > this_level in place of >=
EdgeViolations_StrictOrder(r, j) ==
    LET this_key == df[r].full_key
        this_level == df[r].calculation_level
        dep_key == dependencies(r)[j][1]
        found == dep_key \in DOMAIN level_map
    IN  IF ~found
        THEN << [key |-> this_key, problem |-> "Missing dependency",
                 dependency |-> dep_key, context |-> "pf"] >>
        ELSE IF level_map[dep_key] > this_level /\ this_level # 0
        THEN << [key |-> this_key, problem |-> "Invalid calculation order",
                 dependency |-> dep_key, dependency_level |-> level_map[dep_key],
                 key_level |-> this_level] >>
        ELSE << >>

\* EdgeViolations without the continue of the missing-key branch: the
\* context checks still run on the absent key (flag None, context "pf")
EdgeViolations_NoContinue(r, j) ==
    LET this_key == df[r].full_key
        this_level == df[r].calculation_level
        dep_key == dependencies(r)[j][1]
        found == dep_key \in DOMAIN level_map
    IN  IF ~found
        THEN << [key |-> this_key, problem |-> "Missing dependency",
                 dependency |-> dep_key, context |-> "pf"],
                [key |-> this_key, problem |-> "Expected pf but dependency is current",
                 dependency |-> dep_key] >>
        ELSE IF level_map[dep_key] >= this_level /\ this_level # 0
        THEN << [key |-> this_key, problem |-> "Invalid calculation order",
                 dependency |-> dep_key, dependency_level |-> level_map[dep_key],
                 key_level |-> this_level] >>
        ELSE << >>

\* EdgeViolations with the order check on the proper level of the reference
EdgeViolations_OrderOnProper(r, j) ==
    LET this_key == df[r].full_key
        this_level == df[r].calculation_level
        this_formula == df[r].formula
        dep_key == dependencies(r)[j][1]
        found == dep_key \in DOMAIN level_map
        \* line 112 rebinds dep_ctx from the looked-up flag (None when not found)
        dep_ctx == IF found /\ current_map[dep_key] THEN "current" ELSE "pf"
    IN  IF this_level # 0 /\ this_formula.kind = "None"
        THEN << [key |-> this_key, problem |-> "Invalid calculation order",
                 dependency |-> dep_key, key_level |-> this_level] >>
        ELSE IF ~found
        THEN << [key |-> this_key, problem |-> "Missing dependency",
                 dependency |-> dep_key, context |-> dep_ctx] >>
        ELSE IF memo[dep_key] >= this_level /\ this_level # 0
        THEN << [key |-> this_key, problem |-> "Invalid calculation order",
                 dependency |-> dep_key, dependency_level |-> level_map[dep_key],
                 key_level |-> this_level] >>
        ELSE IF dep_ctx = "current" /\ current_map[dep_key] # TRUE
        THEN << [key |-> this_key, problem |-> "Expected current but dependency is pf",
                 dependency |-> dep_key, dependency_is_current |-> current_map[dep_key]] >>
        ELSE IF dep_ctx = "pf" /\ current_map[dep_key] # FALSE
        THEN << [key |-> this_key, problem |-> "Expected pf but dependency is current",
                 dependency |-> dep_key, dependency_is_current |-> current_map[dep_key]] >>
        ELSE << >>

\* the record appended for the edge (this row, its j-th reference), or none
\* (lines 109-167; the checks are tried in order, the first that matches wins)
EdgeViolations(r, j) ==
    LET this_key == df[r].full_key
        this_level == df[r].calculation_level
        this_formula == df[r].formula
        dep_key == dependencies(r)[j][1]
        found == dep_key \in DOMAIN level_map
        \* line 112 rebinds dep_ctx from the looked-up flag (None when not found)
        dep_ctx == IF found /\ current_map[dep_key] THEN "current" ELSE "pf"
    IN  IF this_level # 0 /\ this_formula.kind = "None"
        THEN << [key |-> this_key, problem |-> "Invalid calculation order",
                 dependency |-> dep_key, key_level |-> this_level] >>
        ELSE IF ~found
        THEN << [key |-> this_key, problem |-> "Missing dependency",
                 dependency |-> dep_key, context |-> dep_ctx] >>
        ELSE IF level_map[dep_key] >= this_level /\ this_level # 0
        THEN << [key |-> this_key, problem |-> "Invalid calculation order",
                 dependency |-> dep_key, dependency_level |-> level_map[dep_key],
                 key_level |-> this_level] >>
        ELSE IF dep_ctx = "current" /\ current_map[dep_key] # TRUE
        THEN << [key |-> this_key, problem |-> "Expected current but dependency is pf",
                 dependency |-> dep_key, dependency_is_current |-> current_map[dep_key]] >>
        ELSE IF dep_ctx = "pf" /\ current_map[dep_key] # FALSE
        THEN << [key |-> this_key, problem |-> "Expected pf but dependency is current",
                 dependency |-> dep_key, dependency_is_current |-> current_map[dep_key]] >>
        ELSE << >>

\* one turn of the inner loop: the next reference of the current row
ValidateEdge ==
    /\ pc = "validate"
    /\ row <= Len(df)
    /\ depi <= Len(dependencies(row))
    /\ violations' = violations \o EdgeViolations(row, depi)
    /\ depi' = depi + 1
    /\ UNCHANGED <<data, review, db, memo, visited, stack, applied, row, pc>>

\* the inner loop is exhausted: df.iterrows() yields the next row
NextRow ==
    /\ pc = "validate"
    /\ row <= Len(df)
    /\ depi > Len(dependencies(row))
    /\ row' = row + 1
    /\ depi' = 1
    /\ UNCHANGED <<data, review, db, memo, visited, stack, applied, violations, pc>>

\* lines 169-173: the loop over the rows is over, the pass reports
Report ==
    /\ pc = "validate"
    /\ row > Len(df)
    /\ pc' = "done"
    /\ UNCHANGED <<data, review, db, memo, visited, stack, applied, violations, row, depi>>

Next == Apply \/ Descend \/ Return \/ AssignColumn \/ ValidateEdge \/ NextRow \/ Report

Spec == Init /\ [][Next]_vars
SpecV == InitV /\ [][Next]_vars

(* ---------------------------- the dependency graph --------------------- *)
\* the keys referenced by a registry key, present in the registry or not
RefKeys(k) == { dependency_map[k][j][1] : j \in 1..Len(dependency_map[k]) }
Succ(k) == RefKeys(k) \cap RegistryKeys

RECURSIVE Closure(_)
Closure(S) == LET T == S \cup UNION { Succ(x) : x \in S }
              IN  IF T = S THEN S ELSE Closure(T)

\* the registry keys reachable from k over one or more references
Reach(k) == Closure(Succ(k))
OnCycle(k) == k \in Reach(k)
ReachesCycle(k) == OnCycle(k) \/ \E c \in Reach(k) : OnCycle(c)

SetMax(S) == CHOOSE x \in S : \A y \in S : x >= y
\* the run has ended: the table of proper levels and the violations are final
PassOver == pc = "done"

(* ---------------------------- C1 ---------------------------------------- *)
\* the memo left by querying the keys in the order of their names
RECURSIVE ResolveFrom(_, _)
ResolveFrom(n, m) ==
    IF n > NumKeys THEN m
    ELSE IF KeyOf(n) \notin RegistryKeys THEN ResolveFrom(n + 1, m)
    ELSE ResolveFrom(n + 1, calculate_proper_level(KeyOf(n), dependency_map, m, {}).memo)
NameOrderMemo == ResolveFrom(1, << >>)

\* C1: whatever the order of the rows (the order in which the keys are first
\* queried), the level memoized for, and returned to, every key is the level
\* that querying the keys in name order gives.
C1_Determinism ==
    PassOver =>
        /\ memo = NameOrderMemo
        /\ \A i \in 1..Len(df) : applied[i] = NameOrderMemo[df[i].full_key]

\* a pass over rows that are not in name order, with a cyclic and a levelled key
C1_Witness ==
    /\ pc = "done"
    /\ df[1].full_key # KeyOf(1)
    /\ \E k \in RegistryKeys : memo[k] = Cycle
    /\ \E k \in RegistryKeys : memo[k] >= 1

(* ---------------------------- C2 ---------------------------------------- *)
\* C2: after the pass every key on a dependency cycle, and every key that
\* reaches such a key, has proper level Cycle.
C2_CyclePropagation ==
    PassOver =>
        \A i \in 1..Len(df) :
            ReachesCycle(df[i].full_key) =>
                memo[df[i].full_key] = Cycle /\ applied[i] = Cycle

\* the first row queried is off every cycle but depends on a cyclic key
C2_Witness ==
    /\ pc = "done"
    /\ ~OnCycle(df[1].full_key)
    /\ ReachesCycle(df[1].full_key)
    /\ memo[df[1].full_key] = Cycle

(* ---------------------------- C3 ---------------------------------------- *)
LevelOrZero(d) == IF d \in RegistryKeys THEN memo[d] ELSE 0

\* C3: after the pass a key whose level is not Cycle has level 0 when it has
\* no reference, and else 1 + the largest level among its references, an
\* absent reference counting 0.
C3_RecursiveLevel ==
    PassOver =>
        \A k \in RegistryKeys :
            memo[k] # Cycle =>
                memo[k] = IF RefKeys(k) = {} THEN 0
                          ELSE 1 + SetMax({ LevelOrZero(d) : d \in RefKeys(k) })

\* a chain of two references: level 2 over level 1
C3_Witness ==
    /\ pc = "done"
    /\ \E k \in RegistryKeys : memo[k] = 2 /\ \E d \in Succ(k) : memo[d] = 1

(* ---------------------------- C4 ---------------------------------------- *)
\* C4: a reference to a key absent from the registry is never called (no
\* frame, no visited mark, no memo entry), contributes level 0 to the call
\* that holds it, and a key with only absent references ends at level 1.
C4_MissingReference ==
    /\ DOMAIN memo \subseteq RegistryKeys
    /\ visited \subseteq RegistryKeys
    /\ \A s \in 1..Len(stack) :
          /\ stack[s].key \in RegistryKeys
          /\ \A j \in 1..Len(stack[s].levels) :
                dependency_map[stack[s].key][j][1] \notin RegistryKeys
                    => stack[s].levels[j] = 0
    /\ PassOver =>
          \A k \in RegistryKeys :
              (RefKeys(k) # {} /\ Succ(k) = {}) => memo[k] = 1

\* a key whose references are all absent has been resolved to 1
C4_Witness ==
    /\ pc = "done"
    /\ \E k \in RegistryKeys : RefKeys(k) # {} /\ Succ(k) = {} /\ memo[k] = 1

(* ---------------------------- the edges validated ---------------------- *)
\* an edge is an occurrence of a reference: <<row, position in the row>>
Edges == UNION { { <<r, j>> : j \in 1..Len(dependencies(r)) } : r \in DOMAIN df }
Validated(e) ==
    \/ pc = "done"
    \/ pc = "validate" /\ (e[1] < row \/ (e[1] = row /\ e[2] < depi))
ValidatedEdges == { e \in Edges : Validated(e) }
Target(e) == dependencies(e[1])[e[2]][1]
TagWritten(e) == dependencies(e[1])[e[2]][2]

\* the violations of one kind recorded for a subject key and a dependency
Recorded(key, problem, dep) ==
    { n \in DOMAIN violations : /\ violations[n].key = key
                                /\ violations[n].problem = problem
                                /\ violations[n].dependency = dep }
RecordedAny(key, dep) ==
    { n \in DOMAIN violations : violations[n].key = key /\ violations[n].dependency = dep }
\* the validated occurrences of a reference from row r to dep
Occurrences(r, dep) == { e \in ValidatedEdges : e[1] = r /\ Target(e) = dep }

OrderBroken(r, dep) ==
    level_map[dep] >= df[r].calculation_level /\ df[r].calculation_level # 0

(* ---------------------------- C5 ---------------------------------------- *)
\* C5: every validated reference to a key absent from the registry has its
\* own "Missing dependency" violation naming the subject key and the target,
\* whatever the declared level of the subject.
C5_MissingDetected ==
    \A r \in DOMAIN df : \A dep \in RefKeys(df[r].full_key) \ RegistryKeys :
        Cardinality(Recorded(df[r].full_key, "Missing dependency", dep))
            = Cardinality(Occurrences(r, dep))

\* a subject of declared level 0 reported for an absent reference
C5_Witness ==
    /\ pc = "done"
    /\ \E r \in DOMAIN df : \E dep \in RefKeys(df[r].full_key) \ RegistryKeys :
          /\ df[r].calculation_level = 0
          /\ Recorded(df[r].full_key, "Missing dependency", dep) # {}

(* ---------------------------- C6 ---------------------------------------- *)
\* C6: a validated reference that passes the missing and the ordering check
\* and is written with tag current against a record with is_current = FALSE
\* is reported "Expected current but dependency is pf"; with tag pf against
\* a record with is_current = TRUE, "Expected pf but dependency is current".
C6_ContextMismatch ==
    \A e \in ValidatedEdges :
        LET key == df[e[1]].full_key
            dep == Target(e)
        IN  (dep \in RegistryKeys /\ ~OrderBroken(e[1], dep)) =>
              /\ (TagWritten(e) = "current" /\ current_map[dep] = FALSE) =>
                    Recorded(key, "Expected current but dependency is pf", dep) # {}
              /\ (TagWritten(e) = "pf" /\ current_map[dep] = TRUE) =>
                    Recorded(key, "Expected pf but dependency is current", dep) # {}

(* ---------------------------- C7 ---------------------------------------- *)
\* C7: the context of every "Missing dependency" violation is the tag
\* written in a reference of the subject key to that dependency.
C7_MissingCarriesContext ==
    \A n \in DOMAIN violations :
        violations[n].problem = "Missing dependency" =>
            \E e \in Edges : /\ df[e[1]].full_key = violations[n].key
                             /\ Target(e) = violations[n].dependency
                             /\ TagWritten(e) = violations[n].context

(* ---------------------------- C8 ---------------------------------------- *)
\* C8: a validated reference to a registry key has its own "Invalid
\* calculation order" violation exactly when the declared level of the
\* target is >= the declared level of the subject and the latter is not 0;
\* the record carries the two declared levels.
C8_OrderingCheck ==
    \A r \in DOMAIN df : \A dep \in Succ(df[r].full_key) :
        LET rec == Recorded(df[r].full_key, "Invalid calculation order", dep)
        IN  /\ Cardinality(rec) =
                  IF OrderBroken(r, dep) THEN Cardinality(Occurrences(r, dep)) ELSE 0
            /\ \A n \in rec : /\ violations[n].dependency_level = level_map[dep]
                              /\ violations[n].key_level = df[r].calculation_level

\* an edge reported on equal declared levels although the proper levels of
\* its two keys are in order (0 below 1)
C8_Witness ==
    /\ pc = "done"
    /\ \E r \in DOMAIN df : \E dep \in Succ(df[r].full_key) :
          /\ Recorded(df[r].full_key, "Invalid calculation order", dep) # {}
          /\ memo[dep] = 0
          /\ memo[df[r].full_key] = 1

(* ---------------------------- C9 ---------------------------------------- *)
\* C9: every validated occurrence of a reference has added at most one
\* violation: the list is no longer than the number of validated references
\* (hence than the number of references), per subject and dependency there
\* are no more violations than occurrences, and no pair is reported both as
\* missing and under another problem.
C9_FirstMatch ==
    /\ Len(violations) <= Cardinality(ValidatedEdges)
    /\ Cardinality(ValidatedEdges) <= Cardinality(Edges)
    /\ \A r \in DOMAIN df : \A dep \in RefKeys(df[r].full_key) :
          /\ Cardinality(RecordedAny(df[r].full_key, dep))
                <= Cardinality(Occurrences(r, dep))
          /\ Recorded(df[r].full_key, "Missing dependency", dep) # {} =>
                RecordedAny(df[r].full_key, dep)
                    = Recorded(df[r].full_key, "Missing dependency", dep)

\* a reference written twice in one formula, reported once per occurrence
C9_Witness ==
    /\ pc = "done"
    /\ \E r \in DOMAIN df : \E dep \in RefKeys(df[r].full_key) :
          /\ Cardinality(Occurrences(r, dep)) = 2
          /\ Cardinality(RecordedAny(df[r].full_key, dep)) = 2
    /\ Len(violations) = Cardinality(Edges)

(* ---------------------------- C10 --------------------------------------- *)
\* C10: at the end of the pass every key with a non-zero declared level and
\* no formula is the subject of an "Invalid calculation order" violation.
C10_DeclaredLevelSanity ==
    pc = "done" =>
        \A r \in DOMAIN df :
            (df[r].calculation_level # 0 /\ df[r].formula.kind = "None") =>
                \E n \in DOMAIN violations :
                    /\ violations[n].key = df[r].full_key
                    /\ violations[n].problem = "Invalid calculation order"

(* ---------------------------- C11 --------------------------------------- *)
\* the tag written in the reference agrees with the flag of the target
TagAgrees(e) == (TagWritten(e) = "current") = current_map[Target(e)]
\* every reference of row r is to a registry key, in declared order, in context
CleanRow(r) ==
    \A e \in Edges : e[1] = r =>
        /\ Target(e) \in RegistryKeys
        /\ ~OrderBroken(r, Target(e))
        /\ TagAgrees(e)
SubjectOf(r) == { n \in DOMAIN violations : violations[n].key = df[r].full_key }

\* C11: at the end of the run a key whose references all pass the checks on
\* the declared data has no violation, whether or not its declared level
\* equals its proper level; a key of declared level 0 is never reported for
\* its order, and when its references are to leaves it has proper level 1
\* and is listed among the level mismatches only.
C11_DeltaNonBlocking ==
    PassOver =>
        \A r \in DOMAIN df :
            /\ CleanRow(r) => SubjectOf(r) = {}
            /\ df[r].calculation_level = 0 =>
                  \A n \in SubjectOf(r) : violations[n].problem # "Invalid calculation order"
            /\ ( /\ df[r].calculation_level = 0
                 /\ dependencies(r) # << >>
                 /\ CleanRow(r)
                 /\ \A d \in RefKeys(df[r].full_key) : memo[d] = 0 )
                  => applied[r] = 1 /\ r \in level_mismatches /\ SubjectOf(r) = {}

\* declared level 0, a reference to an existing leaf in its context: proper
\* level 1, a mismatch and no violation
C11_Witness ==
    /\ pc = "done"
    /\ \E r \in DOMAIN df :
          /\ df[r].calculation_level = 0
          /\ dependencies(r) # << >>
          /\ CleanRow(r)
          /\ applied[r] = 1
          /\ r \in level_mismatches
          /\ SubjectOf(r) = {}

(* ---------------------------- C12 --------------------------------------- *)
\* C12: every violation record carries the subject key, the problem, the
\* dependency key, the declared level of the subject and its proper level,
\* and the context and the declared level of the dependency when the
\* dependency is a registry key.
C12_FullyPopulated ==
    \A n \in DOMAIN violations :
        /\ {"key", "problem", "dependency", "key_level", "proper_level"}
              \subseteq DOMAIN violations[n]
        /\ violations[n].dependency \in RegistryKeys =>
              {"context", "dependency_level"} \subseteq DOMAIN violations[n]

(* ---------------------------- C13 --------------------------------------- *)
\* the script runs on its own thread: a statement that can run does run
SpecLive == Init /\ [][Next]_vars /\ WF_vars(Next)

\* C13: on every registry (cycles, self-references and absent references
\* included) the run reaches its end, with no call left open and exactly one
\* memoized level, an integer >= 0 or Cycle, for every registry key.
C13_PassCompletes ==
    <>( /\ pc = "done"
        /\ stack = << >>
        /\ visited = {}
        /\ Len(applied) = Len(df)
        /\ DOMAIN memo = RegistryKeys
        /\ \A k \in RegistryKeys : memo[k] = Cycle \/ memo[k] \in Nat )

\* the end of a run over a self-reference and an absent reference
C13_Witness ==
    /\ pc = "done"
    /\ DOMAIN memo = RegistryKeys
    /\ \E k \in RegistryKeys : k \in RefKeys(k)
    /\ \E k \in RegistryKeys : RefKeys(k) \ RegistryKeys # {}

(* ---------------------------- C14 --------------------------------------- *)
\* the value handed to the caller by this step, if the step hands one over
LastOf(s) == s[Len(s)]
\* the step answers the reference at the top of the stack without a new call
AnswersInPlace ==
    /\ stack # << >>
    /\ Len(stack') = Len(stack)
    /\ Len(LastOf(stack').levels) = Len(Top.levels) + 1

\* C14: a memo entry is never changed or removed; no call is opened for a
\* key that has an entry (its references are not expanded again); and a
\* query of a key that has an entry, from the top level or from a reference,
\* is answered with that entry.
C14_MemoPermanent ==
    [][ /\ \A k \in DOMAIN memo : k \in DOMAIN memo' /\ memo'[k] = memo[k]
        /\ \A s \in DOMAIN stack' : stack'[s].key \notin DOMAIN memo
        /\ Len(applied') > Len(applied) =>
              LastOf(applied') = memo'[df[Len(applied')].full_key]
        /\ AnswersInPlace =>
              LET d_key == dependency_map[Top.key][Top.i][1]
              IN  d_key \in DOMAIN memo => LastOf(LastOf(stack').levels) = memo[d_key]
      ]_vars

\* the second row was finalized by the call for the first row and its query
\* is answered from memo
C14_Witness ==
    /\ pc = "resolve"
    /\ stack = << >>
    /\ Len(applied) = 2
    /\ df[2].full_key \in Reach(df[1].full_key)
    /\ applied[2] = memo[df[2].full_key]

(* ---------------------------- C15 --------------------------------------- *)
\* 0 Unvisited, 1 InProgress (in visited), 2 Finalized (in memo)
Progress(k, vis, m) == IF k \in DOMAIN m THEN 2 ELSE IF k \in vis THEN 1 ELSE 0
\* visited is the set of keys of the open calls, each key open once, and
\* holds no finalized key
PathIsVisited(vis, m, st) ==
    /\ vis \cap DOMAIN m = {}
    /\ vis = { st[s].key : s \in DOMAIN st }
    /\ Cardinality(vis) = Len(st)

\* C15: every step moves a key at most one stage forward, Unvisited ->
\* InProgress -> Finalized, and never back; before and after every step no
\* key is both in visited and in memo and visited is exactly the set of keys
\* on the active recursion path (empty when no call is open); a re-entry
\* into an InProgress key is answered with Cycle and writes neither memo nor
\* visited.
C15_TriState ==
    [][ /\ PathIsVisited(visited, memo, stack)
        /\ PathIsVisited(visited', memo', stack')
        /\ \A k \in RegistryKeys :
              /\ Progress(k, visited', memo') >= Progress(k, visited, memo)
              /\ Progress(k, visited', memo') <= Progress(k, visited, memo) + 1
        /\ (AnswersInPlace /\ dependency_map[Top.key][Top.i][1] \in visited) =>
              /\ LastOf(LastOf(stack').levels) = Cycle
              /\ memo' = memo
              /\ visited' = visited
      ]_vars

\* two calls are open and the inner one has re-entered an open key
C15_Witness ==
    /\ pc = "resolve"
    /\ Len(stack) = 2
    /\ Top.levels = <<Cycle>>
    /\ dependency_map[Top.key][1][1] = stack[1].key
    /\ stack[1].key \in visited
    /\ stack[1].key \notin DOMAIN memo

(* ---------------------------- C16 --------------------------------------- *)
\* Cycle, or a level between 0 and the number of registry keys
InRange(l) == l = Cycle \/ l \in 0..Cardinality(RegistryKeys)

\* C16: every level memoized, returned to the top level or returned to a
\* calling frame is Cycle or lies in 0..N, N the number of registry keys; a
\* memoized Cycle always comes from a reference that is itself open or at
\* Cycle, never from 1 + max over levels that are all >= 0.
C16_LevelRange ==
    /\ \A k \in DOMAIN memo : InRange(memo[k])
    /\ \A i \in DOMAIN applied : InRange(applied[i])
    /\ \A s \in DOMAIN stack : \A j \in DOMAIN stack[s].levels : InRange(stack[s].levels[j])
    /\ \A k \in DOMAIN memo :
          memo[k] = Cycle =>
              \E d \in Succ(k) : \/ d = k
                                 \/ d \in visited
                                 \/ d \in DOMAIN memo /\ memo[d] = Cycle

\* the longest chain: every key on it and an absent reference at its end
C16_Witness ==
    /\ pc = "done"
    /\ \E k \in RegistryKeys : memo[k] = Cardinality(RegistryKeys)

(* ---------------------------- C17 --------------------------------------- *)
\* the positions of a text at which the pattern matches, and the n-th of them
MatchPositions(text) == { p \in DOMAIN text : text[p].tag = "current" \/ text[p].tag = "pf" }
NthOf(P, n) == CHOOSE p \in P : Cardinality({ q \in P : q <= p }) = n

\* C17: for a text formula the dependencies are one pair per match of the
\* pattern, in the order of the matches and with repeats kept, the pair of
\* the match (g, k, tag) being (fund_id!g!k!tag, tag); a quoted triple with
\* another tag gives no pair.
C17_ReferenceExtraction ==
    \A r \in DOMAIN df :
        df[r].formula.kind = "str" =>
            LET text == df[r].formula.text
                P == MatchPositions(text)
            IN  /\ Len(dependencies(r)) = Cardinality(P)
                /\ \A j \in DOMAIN dependencies(r) :
                      LET t == text[NthOf(P, j)]
                      IN  dependencies(r)[j] = << <<df[r].fund_id, t.g, t.k, t.tag>>, t.tag >>

\* a text of two triples, the first with a tag the pattern rejects
C17_Witness ==
    \E r \in DOMAIN df :
        /\ df[r].formula.kind = "str"
        /\ Len(df[r].formula.text) = 2
        /\ df[r].formula.text[1].tag = BadTag
        /\ Len(dependencies(r)) = 1
        /\ pc = "done"

(* ---------------------------- C18 --------------------------------------- *)
\* C18: a key whose formula is not a text has no dependency reference, is
\* memoized and returned at proper level 0, and is never the subject of a
\* violation, whatever its declared level.
C18_AbsentFormulaIsRaw ==
    \A r \in DOMAIN df :
        df[r].formula.kind # "str" =>
            /\ dependencies(r) = << >>
            /\ dependency_map[df[r].full_key] = << >>
            /\ df[r].full_key \in DOMAIN memo => memo[df[r].full_key] = 0
            /\ r \in DOMAIN applied => applied[r] = 0
            /\ SubjectOf(r) = {}

\* the end of a run over two keys without formula, one declared at level 0
\* and one declared at a level above 0
C18_Witness ==
    /\ pc = "done"
    /\ \A r \in DOMAIN df : df[r].formula.kind = "None" /\ applied[r] = 0
    /\ \E r \in DOMAIN df : df[r].calculation_level = 0
    /\ \E r \in DOMAIN df : df[r].calculation_level # 0
    /\ violations = << >>

(* ======================== review tracker =============================== *)
\* src/review_tracker.py: the review file holds one JSON object per line
MaxCalls == 3

ReviewFunds == {"Fund A", "Fund B"}
ReviewDatagroups == {"DG1", "DG2"}
Reviewers == {"ann", "bob"}
\* datetime.now(): the clock is not under the program's control
Clock == {1, 2}

\* json.dumps(data): the text of one line, the values in key order
dumps(item) ==
    <<item.fund_name, item.datagroup_name, item.reviewer_name, item.reviewed_at>>
\* line.strip() of a line without text
Blank == << >>
\* a line on which json.loads raises JSONDecodeError
Undecodable == <<"not json">>
Decodable(line) == Len(line) = 4
\* json.loads(line) of a decodable line
loads(line) ==
    [fund_name |-> line[1], datagroup_name |-> line[2],
     reviewer_name |-> line[3], reviewed_at |-> line[4]]

\* the read loop shared by the three readers: blank lines and lines that do
\* not decode are skipped
ReadEntries(lines) ==
    LET kept == SelectSeq(lines, LAMBDA l : l # Blank /\ Decodable(l))
    IN  [i \in 1..Len(kept) |-> loads(kept[i])]

load_reviewed_items(file) ==
    IF ~file.exists THEN {}
    ELSE LET es == ReadEntries(file.lines)
         IN  { <<es[i].fund_name, es[i].datagroup_name>> : i \in 1..Len(es) }

is_reviewed(fund_name, datagroup_name, reviewed_set) ==
    <<fund_name, datagroup_name>> \in reviewed_set

\* the latest entry of the pair as a sequence of length one, None as << >>
get_review_details(file, fund_name, datagroup_name) ==
    IF ~file.exists THEN << >>
    ELSE LET hits == SelectSeq(ReadEntries(file.lines),
                         LAMBDA d : d.fund_name = fund_name
                                    /\ d.datagroup_name = datagroup_name)
         IN  IF hits = << >> THEN << >> ELSE <<hits[Len(hits)]>>

PassFrame == <<data, memo, visited, stack, applied, violations, row, depi, pc>>

\* the record of one call: its arguments, whether its file operation raised,
\* and the value it returned
SaveCall(item, ok) ==
    IF ok THEN [op |-> "save", fund_name |-> item.fund_name,
                datagroup_name |-> item.datagroup_name,
                reviewer_name |-> item.reviewer_name,
                reviewed_at |-> item.reviewed_at, io_error |-> FALSE, result |-> TRUE]
    ELSE [op |-> "save", fund_name |-> item.fund_name,
          datagroup_name |-> item.datagroup_name, io_error |-> TRUE, result |-> FALSE]
RemoveCall(fund_name, datagroup_name) ==
    [op |-> "remove", fund_name |-> fund_name, datagroup_name |-> datagroup_name,
     io_error |-> FALSE, result |-> TRUE]

\* save_reviewed_item that skips a pair which is already in the file
save_reviewed_item_Dedup(fund_name, datagroup_name, reviewer_name) ==
    /\ Len(calls) < MaxCalls
    /\ \E now \in Clock, io_error \in BOOLEAN :
          LET item == [fund_name |-> fund_name, datagroup_name |-> datagroup_name,
                       reviewer_name |-> reviewer_name, reviewed_at |-> now]
              seen == is_reviewed(fund_name, datagroup_name,
                                  load_reviewed_items(review_file))
          IN  IF io_error \/ seen
              THEN /\ UNCHANGED review_file
                   /\ calls' = Append(calls, [io_error |-> io_error] @@
                                             SaveCall(item, FALSE))
              ELSE /\ review_file' = [exists |-> TRUE,
                                      lines |-> Append(review_file.lines, dumps(item))]
                   /\ calls' = Append(calls, SaveCall(item, TRUE))
    /\ UNCHANGED <<PassFrame, db>>

\* lines 49-63: the entry is written at the end of the file opened in 'a' mode;
\* an exception of open or write is caught and answered with False
save_reviewed_item(fund_name, datagroup_name, reviewer_name) ==
    /\ Len(calls) < MaxCalls
    /\ \E now \in Clock, io_error \in BOOLEAN :
          LET item == [fund_name |-> fund_name, datagroup_name |-> datagroup_name,
                       reviewer_name |-> reviewer_name, reviewed_at |-> now]
          IN  IF io_error
              THEN /\ UNCHANGED review_file
                   /\ calls' = Append(calls, SaveCall(item, FALSE))
              ELSE /\ review_file' = [exists |-> TRUE,
                                      lines |-> Append(review_file.lines, dumps(item))]
                   /\ calls' = Append(calls, SaveCall(item, TRUE))
    /\ UNCHANGED <<PassFrame, db>>

\* remove_reviewed_item that keeps a line only if both fields differ
remove_reviewed_item_And(fund_name, datagroup_name) ==
    /\ Len(calls) < MaxCalls
    /\ IF ~review_file.exists
       THEN UNCHANGED review_file
       ELSE review_file' =
              [exists |-> TRUE,
               lines |-> SelectSeq(review_file.lines,
                            LAMBDA l : /\ l # Blank
                                       /\ Decodable(l)
                                       /\ loads(l).fund_name # fund_name
                                       /\ loads(l).datagroup_name # datagroup_name)]
    /\ calls' = Append(calls, RemoveCall(fund_name, datagroup_name))
    /\ UNCHANGED <<PassFrame, db>>

\* lines 74-94: the file is rewritten with the decodable lines of other pairs
remove_reviewed_item(fund_name, datagroup_name) ==
    /\ Len(calls) < MaxCalls
    /\ IF ~review_file.exists
       THEN UNCHANGED review_file
       ELSE review_file' =
              [exists |-> TRUE,
               lines |-> SelectSeq(review_file.lines,
                            LAMBDA l : /\ l # Blank
                                       /\ Decodable(l)
                                       /\ \/ loads(l).fund_name # fund_name
                                          \/ loads(l).datagroup_name # datagroup_name)]
    /\ calls' = Append(calls, RemoveCall(fund_name, datagroup_name))
    /\ UNCHANGED <<PassFrame, db>>

\* app.py 468-470: the button calls save with three non-empty values
MarkReviewed ==
    \E f \in ReviewFunds, d \in ReviewDatagroups, r \in Reviewers :
        save_reviewed_item(f, d, r)
UnmarkReviewed ==
    \E f \in ReviewFunds, d \in ReviewDatagroups : remove_reviewed_item(f, d)

\* the file is absent before the first save; a file edited by hand may hold
\* a line that is not JSON
InitReview ==
    /\ Load(<< >>)
    /\ memo = << >> /\ visited = {} /\ stack = << >> /\ applied = << >>
    /\ violations = << >> /\ row = 1 /\ depi = 1 /\ pc = "done"
    /\ review_file \in {AbsentFile, [exists |-> TRUE, lines |-> <<Undecodable>>]}
    /\ calls = << >>
    /\ NoDb

NextReview == MarkReviewed \/ UnmarkReviewed
SpecReview == InitReview /\ [][NextReview]_vars

(* ---------------------------- C19 --------------------------------------- *)
ItemOf(c) ==
    [fund_name |-> c.fund_name, datagroup_name |-> c.datagroup_name,
     reviewer_name |-> c.reviewer_name, reviewed_at |-> c.reviewed_at]
EntriesOf(c, es) ==
    SelectSeq(es, LAMBDA d : d.fund_name = c.fund_name
                             /\ d.datagroup_name = c.datagroup_name)

\* C19: a call of save_reviewed_item whose file operation does not raise
\* returns True, adds exactly one line at the end of the file, which holds
\* the entry it was given, and leaves every earlier line and entry in place,
\* also when the pair already has entries in the file.
C19_SaveAlwaysAppends ==
    [][(Len(calls') = Len(calls) + 1
        /\ LastOf(calls').op = "save" /\ ~LastOf(calls').io_error)
       => LET c == LastOf(calls')
              old == review_file.lines
              new == review_file'.lines
          IN  /\ c.result = TRUE
              /\ review_file'.exists
              /\ Len(new) = Len(old) + 1
              /\ SubSeq(new, 1, Len(old)) = old
              /\ loads(LastOf(new)) = ItemOf(c)
              /\ ReadEntries(new) = Append(ReadEntries(old), ItemOf(c))
              /\ Len(EntriesOf(c, ReadEntries(new)))
                   = Len(EntriesOf(c, ReadEntries(old))) + 1]_vars

\* one pair saved twice by different reviewers: the file holds both entries
C19_Witness ==
    /\ Len(calls) = 2
    /\ calls[1].op = "save" /\ calls[1].result
    /\ calls[2].op = "save" /\ calls[2].result
    /\ calls[1].fund_name = calls[2].fund_name
    /\ calls[1].datagroup_name = calls[2].datagroup_name
    /\ calls[1].reviewer_name # calls[2].reviewer_name
    /\ ReadEntries(review_file.lines) = <<ItemOf(calls[1]), ItemOf(calls[2])>>

(* ---------------------------- C20 --------------------------------------- *)
SamePair(a, b) == a.fund_name = b.fund_name /\ a.datagroup_name = b.datagroup_name
\* the call is a save that returned True and no later call removed its pair
LiveSave(i) ==
    /\ calls[i].op = "save"
    /\ calls[i].result
    /\ \A j \in (i + 1)..Len(calls) :
          ~(calls[j].op = "remove" /\ SamePair(calls[j], calls[i]))
LiveSaves ==
    LET idx == SelectSeq([i \in 1..Len(calls) |-> i], LiveSave)
    IN  [n \in 1..Len(idx) |-> ItemOf(calls[idx[n]])]

\* C20: after any sequence of calls the entries of the file are the saves
\* not removed since, in call order; load_reviewed_items is the set of
\* their pairs and get_review_details is the latest of them for the pair,
\* or None.
C20_ReviewLogConsistent ==
    /\ ReadEntries(review_file.lines) = LiveSaves
    /\ \A f \in ReviewFunds, d \in ReviewDatagroups :
          LET p == [fund_name |-> f, datagroup_name |-> d]
              mine == EntriesOf(p, LiveSaves)
          IN  /\ is_reviewed(f, d, load_reviewed_items(review_file)) <=> mine # << >>
              /\ get_review_details(review_file, f, d) =
                   IF mine = << >> THEN << >> ELSE <<LastOf(mine)>>

\* two pairs saved, the first one removed: the entry of the other pair stays
C20_Witness ==
    /\ Len(calls) = 3
    /\ calls[1].op = "save" /\ calls[1].result
    /\ calls[2].op = "save" /\ calls[2].result
    /\ ~SamePair(calls[1], calls[2])
    /\ calls[3].op = "remove" /\ SamePair(calls[3], calls[1])
    /\ ReadEntries(review_file.lines) = <<ItemOf(calls[2])>>
    /\ get_review_details(review_file, calls[1].fund_name, calls[1].datagroup_name) = << >>

(* ======================== connection pool ============================== *)
\* src/database/db_utils.py: SimpleConnectionPool(1, 10, ...)
MinConn == 1
MaxConn == 10

\* what the database does to one call: nothing, or the first step that raises
Faults == {"none", "connect", "cursor", "execute", "fetch"}
AfterConnect == {"cursor", "execute", "fetch"}

\* lines 18-33: the pool opens MinConn connections when it is created
init_connection_pool(pool, fault) ==
    IF fault = "connect" THEN [ok |-> FALSE, pool |-> pool, error |-> "connect"]
    ELSE [ok |-> TRUE, pool |-> [created |-> TRUE, idle |-> MinConn, used |-> 0],
          error |-> "none"]

\* getconn: an idle connection, else a new one unless MaxConn are in use
getconn(pool, fault) ==
    IF pool.idle > 0
    THEN [ok |-> TRUE, pool |-> [pool EXCEPT !.idle = @ - 1, !.used = @ + 1],
          error |-> "none"]
    ELSE IF pool.used = MaxConn
    THEN [ok |-> FALSE, pool |-> pool, error |-> "connection pool exhausted"]
    ELSE IF fault = "connect"
    THEN [ok |-> FALSE, pool |-> pool, error |-> "connect"]
    ELSE [ok |-> TRUE, pool |-> [pool EXCEPT !.used = @ + 1], error |-> "none"]

\* lines 36-43: the pool is created on first use; a failure raises
get_connection(pool, fault) ==
    IF pool.created THEN getconn(pool, fault)
    ELSE LET made == init_connection_pool(pool, fault)
         IN  IF made.ok THEN getconn(made.pool, fault) ELSE made

\* lines 46-50: putconn keeps up to MinConn open connections and closes the rest
release_connection(pool, broken) ==
    IF pool.created
    THEN [pool EXCEPT !.used = @ - 1,
                      !.idle = IF @ < MinConn /\ ~broken THEN @ + 1 ELSE @]
    ELSE pool

\* what one call did and answered; error is the text of the exception
Outcome(op, got, released, raised, ok, error) ==
    [op |-> op, got |-> got, released |-> released, raised |-> raised, ok |-> ok,
     error |-> error]

\* execute_query that releases the connection on the success path only
execute_query_NoFinally(fault, broken) ==
    LET g == get_connection(connection_pool, fault)
        failed == fault \in AfterConnect
    IN  /\ IF ~g.ok
           THEN /\ connection_pool' = g.pool
                /\ last_call' = Outcome("execute_query", FALSE, 0, TRUE, FALSE, g.error)
           ELSE IF failed
           THEN /\ connection_pool' = g.pool
                /\ last_call' = Outcome("execute_query", TRUE, 0, TRUE, FALSE, fault)
           ELSE /\ connection_pool' = release_connection(g.pool, FALSE)
                /\ last_call' = Outcome("execute_query", TRUE, 1, FALSE, TRUE, "none")
        /\ UNCHANGED <<PassFrame, review>>

\* lines 85-108: the finally block releases conn whenever it was bound; every
\* exception is raised again as "Query execution failed"
execute_query(fault, broken) ==
    LET g == get_connection(connection_pool, fault)
        failed == fault \in AfterConnect
    IN  /\ IF ~g.ok
           THEN /\ connection_pool' = g.pool
                /\ last_call' = Outcome("execute_query", FALSE, 0, TRUE, FALSE, g.error)
           ELSE /\ connection_pool' = release_connection(g.pool, failed /\ broken)
                /\ last_call' = Outcome("execute_query", TRUE, 1, failed, ~failed,
                                     IF failed THEN fault ELSE "none")
        /\ UNCHANGED <<PassFrame, review>>

\* lines 60-71: release_connection is the last statement of the try block;
\* the except clause answers (False, message) and releases nothing
test_connection(fault, broken) ==
    LET g == get_connection(connection_pool, fault)
        failed == fault \in AfterConnect
    IN  /\ IF ~g.ok
           THEN /\ connection_pool' = g.pool
                /\ last_call' = Outcome("test_connection", FALSE, 0, FALSE, FALSE, g.error)
           ELSE IF failed
           THEN /\ connection_pool' = g.pool
                /\ last_call' = Outcome("test_connection", TRUE, 0, FALSE, FALSE, fault)
           ELSE /\ connection_pool' = release_connection(g.pool, FALSE)
                /\ last_call' = Outcome("test_connection", TRUE, 1, FALSE, TRUE, "none")
        /\ UNCHANGED <<PassFrame, review>>

RunQuery == \E fault \in Faults, broken \in BOOLEAN : execute_query(fault, broken)
\* app.py 213: the connection is tested on every run of main
TestConnection == \E fault \in Faults, broken \in BOOLEAN : test_connection(fault, broken)

InitDb ==
    /\ Load(<< >>)
    /\ memo = << >> /\ visited = {} /\ stack = << >> /\ applied = << >>
    /\ violations = << >> /\ row = 1 /\ depi = 1 /\ pc = "done"
    /\ NoReview
    /\ NoDb

NextDb == RunQuery \/ TestConnection
SpecDb == InitDb /\ [][NextDb]_vars

(* ---------------------------- C21 --------------------------------------- *)
\* C21: a call of execute_query that obtained a connection puts it back
\* exactly once, whether it returns or raises at the cursor, the execution
\* or the fetch, and a call that obtained none releases none: the number of
\* connections checked out is the same after the call as before it, and 0
\* when only execute_query has used the pool.
C21_QueryReturnsConnection ==
    [][last_call'.op = "execute_query"
       => /\ last_call'.released = (IF last_call'.got THEN 1 ELSE 0)
          /\ connection_pool'.used = connection_pool.used
          /\ last_call'.raised = ~last_call'.ok
          /\ (last_call.op # "test_connection" /\ connection_pool.used = 0)
                => connection_pool'.used = 0]_vars

\* a query that raised after it had its connection, with nothing checked out
C21_Witness ==
    /\ last_call.op = "execute_query"
    /\ last_call.got /\ last_call.raised
    /\ last_call.error \in AfterConnect
    /\ last_call.released = 1
    /\ connection_pool.created /\ connection_pool.used = 0

(* ---------------------------- C22 --------------------------------------- *)
\* C22: test_connection never raises, and every connection it obtained is
\* back in the pool when it returns, on the success path and on every
\* failure path, so that failing calls never use up the MaxConn connections.
C22_TestConnectionNoLeak ==
    [][last_call'.op = "test_connection"
       => /\ ~last_call'.raised
          /\ last_call'.released = (IF last_call'.got THEN 1 ELSE 0)
          /\ connection_pool'.used = connection_pool.used
          /\ connection_pool'.used < MaxConn]_vars

\* the pool after MaxConn failing tests: every later call fails in getconn
PoolExhausted ==
    /\ connection_pool.used = MaxConn
    /\ last_call.op = "execute_query"
    /\ last_call.error = "connection pool exhausted"

(* ---------------------------- C23 --------------------------------------- *)
\* the references of a key; a key absent from the registry has none
AllRefs(k) == IF k \in RegistryKeys THEN RefKeys(k) ELSE {}
\* there is a chain of n references that starts at k
RECURSIVE HasChain(_, _)
HasChain(k, n) == n = 0 \/ \E d \in AllRefs(k) : HasChain(d, n - 1)
\* the longest chain from a key that reaches no cycle: such a chain visits
\* every registry key at most once and may end at an absent key
LongestChain(k) == SetMax({ n \in 0..NumKeys : HasChain(k, n) })

\* C23: a key that reaches no dependency cycle through registry keys is
\* never given the level Cycle, whatever was queried before it or is being
\* resolved around it, and after the pass its proper level is the number of
\* references on the longest chain from it, a chain that may end with one
\* reference to an absent key.
C23_NoFalseCycles ==
    /\ \A k \in DOMAIN memo : memo[k] = Cycle => ReachesCycle(k)
    /\ PassOver =>
          \A i \in 1..Len(df) :
              ~ReachesCycle(df[i].full_key) =>
                  /\ memo[df[i].full_key] # Cycle
                  /\ memo[df[i].full_key] = LongestChain(df[i].full_key)
                  /\ applied[i] = LongestChain(df[i].full_key)


\* the first key queried is on a cycle; a key queried after it reaches no
\* cycle and has one reference, to an absent key: its level is 1
C23_Witness ==
    /\ pc = "done"
    /\ OnCycle(df[1].full_key)
    /\ memo[df[1].full_key] = Cycle
    /\ \E i \in 2..Len(df) :
          /\ ~ReachesCycle(df[i].full_key)
          /\ RefKeys(df[i].full_key) # {}
          /\ Succ(df[i].full_key) = {}
          /\ memo[df[i].full_key] = 1
          /\ applied[i] = 1

(* ---------------------------- C24 --------------------------------------- *)
\* the dependency cycles of the registry: sequences of distinct keys, each
\* referring to the next and the last to the first
NextOn(c, i) == c[IF i = Len(c) THEN 1 ELSE i + 1]
Cycles ==
    { c \in UNION { [1..n -> RegistryKeys] : n \in 1..Cardinality(RegistryKeys) } :
        /\ \A a, b \in DOMAIN c : c[a] = c[b] => a = b
        /\ \A i \in DOMAIN c : NextOn(c, i) \in Succ(c[i]) }
OrderFlagged(c) ==
    \E i \in DOMAIN c : Recorded(c[i], "Invalid calculation order", NextOn(c, i)) # {}

\* C24: after the pass every dependency cycle whose keys all have a declared
\* level above 0 has an "Invalid calculation order" violation for one of
\* its edges, a self-reference included; a cycle without such a violation
\* has a key of declared level 0, and its keys have proper level Cycle.
C24_ComputedCyclesFlagged ==
    PassOver =>
        \A c \in Cycles :
            /\ (\A i \in DOMAIN c : level_map[c[i]] > 0) => OrderFlagged(c)
            /\ ~OrderFlagged(c) => \E i \in DOMAIN c : level_map[c[i]] = 0
            /\ \A i \in DOMAIN c : memo[c[i]] = Cycle

\* two self-referencing keys: the one declared at level 1 is flagged, the
\* one declared at level 0 has no violation and shows as Cycle only
C24_Witness ==
    /\ pc = "done"
    /\ \E a, b \in DOMAIN df :
          /\ df[a].full_key \in Succ(df[a].full_key)
          /\ df[a].calculation_level > 0
          /\ Recorded(df[a].full_key, "Invalid calculation order", df[a].full_key) # {}
          /\ df[b].full_key \in Succ(df[b].full_key)
          /\ df[b].calculation_level = 0
          /\ SubjectOf(b) = {}
          /\ applied[b] = Cycle
====
